---- MODULE Spec2Model ----
(***************************************************************************)
(* Model of the AucTok property-auction scrapers:                          *)
(*   src/scrape_auctionhouse.py   sitemap pipeline (fetch_text,            *)
(*                                iter_sitemap_property_urls, is_for_sale, *)
(*                                run)                                     *)
(*   src/scrape_national_lots.py  landing-page pipeline (parse_lot_page)   *)
(* Text is modelled structurally: a URL is a record of its path segments,  *)
(* the extension of its last segment and its query; a status string is a   *)
(* sequence of characters.                                                 *)
(***************************************************************************)
EXTENDS Integers, Sequences, FiniteSets, TLC

VARIABLES
    \* --- iter_sitemap_property_urls -------------------------------------
    docs,           \* the sitemap documents on the web: URL -> [tag, locs]
    max_nested,     \* keyword argument max_nested
    to_visit,       \* the frontier list
    visited,        \* the visited set
    property_urls,  \* the collected listing URLs (a set)
    warned,         \* children dropped by the cap (the logging.warning of line 123)
    pc,             \* position of the running function
    log,            \* every outbound fetch_text call and every politeness sleep, in order
    \* --- run -------------------------------------------------------------
    limit,          \* args.limit (NoLimit models None)
    include_sold,   \* args.include_sold
    urls,           \* the list the listing loop iterates over
    idx,            \* number of listings the loop has finished with
    records,        \* the records list
    rows,           \* the rows write_csv wrote
    rc,             \* run's return code (NoRc until it returns)
    \* --- fetch_text ------------------------------------------------------
    retries,        \* keyword argument retries
    backoff,        \* keyword argument backoff, a rational <<num, den>>
    attempt,        \* loop variable attempt (0 before the first iteration)
    last_error,     \* last_error (NoError models None)
    sleeps,         \* the arguments of time.sleep, in order, as <<num, den>>
    ret,            \* what the call returned or raised
    \* --- is_for_sale / parse_lot_page ------------------------------------
    record,         \* the PropertyRecord given to is_for_sale
    structured,     \* what _extract_from_json_ld returned
    heuristic,      \* what _extract_from_html returned
    url_arg,        \* the url argument of parse_lot_page
    details         \* the dict parse_lot_page returns

vars == <<docs, max_nested, to_visit, visited, property_urls, warned, pc, log,
          limit, include_sold, urls, idx, records, rows, rc,
          retries, backoff, attempt, last_error, sleeps, ret,
          record, structured, heuristic, url_arg, details>>

sitemapVars == <<docs, max_nested, to_visit, visited, property_urls, warned>>
runVars     == <<limit, include_sold, urls, idx, records, rows, rc>>
fetchVars   == <<retries, backoff, attempt, last_error, sleeps, ret>>
pureVars    == <<record, structured, heuristic, url_arg, details>>

-----------------------------------------------------------------------------
(* Bounds                                                                  *)

MaxRefs == 4        \* total number of <loc> children over all sitemap indexes
MaxNested == 4      \* largest value of max_nested tried
MaxWords == 2       \* words in a status string
MaxRetries == 3     \* largest value of retries tried
RunRefs == 2        \* child references in the sitemaps a run crawls
MaxLimit == 2       \* largest value of --limit tried
TermRefs == 3       \* child references in the sitemaps checked for termination

-----------------------------------------------------------------------------
(* URLs                                                                    *)

Url(segs, ext, q) == [segs |-> segs, ext |-> ext, q |-> q]

\* sitemap documents
Root == Url(<<"sitemap">>, "xml", "")
DocA == Url(<<"sitemaps", "a">>, "xml", "")
DocB == Url(<<"sitemaps", "b">>, "xml", "")
DocC == Url(<<"sitemaps", "c">>, "xml", "")
\* a child of an index that is no .xml URL
DocN == Url(<<"sitemaps", "n">>, "php", "")
\* a <loc> with no text
EmptyLoc == Url(<<>>, "", "")

\* listing pages and other content pages
P1  == Url(<<"property", "1">>, "", "")
P1q == Url(<<"property", "1">>, "", "ref=home")
P2  == Url(<<"Properties", "2">>, "", "")
P3  == Url(<<"auction", "property", "3">>, "", "")
PBare == Url(<<"property">>, "", "")
About == Url(<<"about">>, "", "")

SitemapDocs == {Root, DocA, DocB, DocC}

\* str.lower() on the path segments used here
Lower(s) ==
    CASE s = "Properties" -> "properties"
      [] s = "Property"   -> "property"
      [] OTHER            -> s

\* looks_like_property_url: "/property/" in path or "/properties/" in path,
\* path being the lower-cased path without the query; a segment is followed
\* by "/" exactly when another segment follows it.
looks_like_property_url(u) ==
    \E i \in 1..(Len(u.segs) - 1) : Lower(u.segs[i]) \in {"property", "properties"}

\* loc_text.endswith(".xml"): the whole text, query included
EndsWithXml(u) == u.q = "" /\ u.ext = "xml"

\* `not loc_text`
IsEmptyText(u) == u = EmptyLoc

\* The order of sorted() on the URL strings used here.
UrlOrder == <<P2, About, P3, PBare, P1, P1q, Root, DocA, DocB, DocC, DocN>>
SortKey(u) == CHOOSE i \in 1..Len(UrlOrder) : UrlOrder[i] = u

RECURSIVE sorted(_)
sorted(S) ==
    IF S = {} THEN <<>>
    ELSE LET m == CHOOSE x \in S : \A y \in S : SortKey(x) <= SortKey(y)
         IN <<m>> \o sorted(S \ {m})

-----------------------------------------------------------------------------
(* The sitemap documents the traversal may meet                            *)

\* what a urlset (leaf) document at each URL lists
LeafLocs(u) ==
    CASE u = Root -> <<P1>>
      [] u = DocA -> <<P1, P2, About>>
      [] u = DocB -> <<P3, EmptyLoc, P1q, PBare>>
      [] u = DocC -> <<P2, DocA>>
      [] OTHER    -> <<>>

IndexCapable == {Root, DocA, DocB}
Children == {DocA, DocB, DocC, DocN}

\* link structures with at most k child references in all
RECURSIVE LinkGraphs(_)
LinkGraphs(k) ==
    IF k = 0 THEN {[u \in IndexCapable |-> <<>>]}
    ELSE LET G == LinkGraphs(k - 1)
         IN G \cup {[g EXCEPT ![u] = Append(g[u], c)] :
                        g \in G, u \in IndexCapable, c \in Children}

\* A document with child references is a sitemap index listing them; any
\* other document is a urlset.
DocsOf(g) ==
    [u \in SitemapDocs |->
        IF u \in IndexCapable /\ g[u] # <<>>
        THEN [tag |-> "sitemapindex", locs |-> g[u]]
        ELSE [tag |-> "urlset", locs |-> LeafLocs(u)]]

SitemapWebs == {DocsOf(g) : g \in LinkGraphs(MaxRefs)}

-----------------------------------------------------------------------------
(* iter_sitemap_property_urls                                              *)

\* what fetch_text and ET.fromstring make of one document:
\*   "ok"        the body arrived and parsed
\*   "malformed" the body arrived and ET.fromstring raised ParseError
\*   "error"     fetch_text raised after its retries
FetchResults == {"ok", "malformed", "error"}

Get(u, res) == [op |-> "GET", url |-> u, res |-> res]
Sleep == [op |-> "sleep", url |-> EmptyLoc, res |-> "ok"]

RemoveAt(seq, i) == SubSeq(seq, 1, i - 1) \o SubSeq(seq, i + 1, Len(seq))

\* line 122: the cap test made before a child is enqueued
CapReachedOff(vis, tv, cap) == Cardinality(vis) + Len(tv) > cap
CapReached(vis, tv, cap) == Cardinality(vis) + Len(tv) >= cap

\* lines 118-126: the children of a sitemap index
RECURSIVE EnqueueChildren(_, _, _, _, _)
EnqueueChildren(locs, tv, vis, cap, w) ==
    IF locs = <<>> THEN [to_visit |-> tv, warned |-> w]
    ELSE LET loc == Head(locs)
             rest == Tail(locs)
         IN IF IsEmptyText(loc) \/ loc \in vis
            THEN EnqueueChildren(rest, tv, vis, cap, w)
            ELSE IF CapReached(vis, tv, cap)
            THEN EnqueueChildren(rest, tv, vis, cap, Append(w, loc))
            ELSE IF EndsWithXml(loc)
            THEN EnqueueChildren(rest, Append(tv, loc), vis, cap, w)
            ELSE EnqueueChildren(rest, tv, vis, cap, w)

\* lines 128-133: the entries of any other document
RECURSIVE CollectListings(_, _)
CollectListings(locs, found) ==
    IF locs = <<>> THEN found
    ELSE LET loc == Head(locs)
         IN IF ~IsEmptyText(loc) /\ looks_like_property_url(loc)
            THEN CollectListings(Tail(locs), found \cup {loc})
            ELSE CollectListings(Tail(locs), found)

\* lines 104-105: the popped document was visited before
OnRevisitBreak(s, tv) == [s EXCEPT !.to_visit = tv, !.pc = "returned"]
OnRevisitNoPop(s, tv) == s
OnRevisit(s, tv) == [s EXCEPT !.to_visit = tv]

\* line 106
MarkVisitedNever(vis, current) == vis
MarkVisited(vis, current) == vis \cup {current}

\* lines 112-114: ParseError is logged and the loop continues
OnParseErrorRaise(s) == [s EXCEPT !.pc = "raised"]
OnParseError(s) == s

\* line 109: fetch_text raised; nothing in the function catches it
OnFetchError(s) == [s EXCEPT !.pc = "raised"]

\* lines 103-133: one iteration of the while loop, on the traversal state
\* s = [to_visit, visited, property_urls, warned, pc, log].  i is the
\* position popped from to_visit (the code pops the last one) and res what
\* fetching and parsing the popped document gives.
LoopBody(s, i, res, web, cap) ==
    LET current == s.to_visit[i]
        tv == RemoveAt(s.to_visit, i)
    IN IF current \in s.visited THEN OnRevisit(s, tv)
       ELSE LET s1 == [s EXCEPT !.to_visit = tv,
                                !.visited = MarkVisited(s.visited, current),
                                !.log = Append(s.log, Get(current, res))]
            IN IF res = "error" THEN OnFetchError(s1)
               ELSE IF res = "malformed" THEN OnParseError(s1)
               ELSE IF web[current].tag = "sitemapindex"
               THEN LET e == EnqueueChildren(web[current].locs, tv, s1.visited,
                                             cap, s1.warned)
                    IN [s1 EXCEPT !.to_visit = e.to_visit, !.warned = e.warned]
               ELSE [s1 EXCEPT !.property_urls =
                                  CollectListings(web[current].locs, s1.property_urls)]

\* lines 98-100
TraversalStart(root) ==
    [to_visit |-> <<root>>, visited |-> {}, property_urls |-> {},
     warned |-> <<>>, pc |-> "loop", log |-> <<>>]

Traversal ==
    [to_visit |-> to_visit, visited |-> visited, property_urls |-> property_urls,
     warned |-> warned, pc |-> pc, log |-> log]

SetTraversal(s) ==
    /\ to_visit' = s.to_visit
    /\ visited' = s.visited
    /\ property_urls' = s.property_urls
    /\ warned' = s.warned
    /\ pc' = s.pc
    /\ log' = s.log

\* lines 102-133: one iteration; pop() takes the last entry
SitemapVisit ==
    /\ pc = "loop"
    /\ to_visit # <<>>
    /\ \E res \in FetchResults :
         SetTraversal(LoopBody(Traversal, Len(to_visit), res, docs, max_nested))
    /\ UNCHANGED <<docs, max_nested, runVars, fetchVars, pureVars>>

\* lines 102, 135: the frontier is empty, the sorted list is returned
SitemapReturn ==
    /\ pc = "loop"
    /\ to_visit = <<>>
    /\ pc' = "returned"
    /\ urls' = sorted(property_urls)
    /\ UNCHANGED <<sitemapVars, log, limit, include_sold, idx, records, rows, rc,
                   fetchVars, pureVars>>

-----------------------------------------------------------------------------
(* Strings: a str is the sequence of its characters; None is NoneStr       *)

NoneStr == <<"None">>
OrEmpty(x) == IF x = NoneStr THEN <<>> ELSE x
Truthy(x) == x # NoneStr /\ x # <<>>

\* str.lower(), character by character
LowerChar(c) ==
    CASE c = "A" -> "a" [] c = "B" -> "b" [] c = "C" -> "c" [] c = "D" -> "d"
      [] c = "E" -> "e" [] c = "L" -> "l" [] c = "M" -> "m" [] c = "O" -> "o"
      [] c = "P" -> "p" [] c = "S" -> "s" [] c = "T" -> "t" [] c = "U" -> "u"
      [] OTHER -> c
LowerStr(s) == [i \in 1..Len(s) |-> LowerChar(s[i])]

\* `k in s` on strings
Contains(s, k) == \E i \in 0..(Len(s) - Len(k)) : SubSeq(s, i + 1, i + Len(k)) = k

RECURSIVE Concat(_)
Concat(ws) == IF ws = <<>> THEN <<>> ELSE Head(ws) \o Concat(Tail(ws))

-----------------------------------------------------------------------------
(* is_for_sale                                                             *)

\* line 227: the disqualifying flags
SoldFlags == {<<"s", "o", "l", "d">>,
              <<"e", "x", "c", "h", "a", "n", "g", "e", "d">>,
              <<"w", "i", "t", "h", "d", "r", "a", "w", "n">>,
              <<"c", "o", "m", "p", "l", "e", "t", "e", "d">>,
              <<"c", "o", "n", "t", "r", "a", "c", "t", "e", "d">>}

\* line 225
StatusOfRaw(rec) == OrEmpty(rec.status)
StatusOf(rec) == LowerStr(OrEmpty(rec.status))

\* lines 224-231
is_for_sale(rec) ==
    LET status == StatusOf(rec)
    IN IF status # <<>> /\ \E flag \in SoldFlags : Contains(status, flag)
       THEN FALSE
       ELSE IF Truthy(rec.guide_price) THEN TRUE
       ELSE status = <<>>

\* the words status strings are put together from
StatusWords == {<<"S", "o", "l", "d">>,
                <<"U", "n">>,
                <<"s", "o", "l", "d">>,
                <<" ", "S", "T", "C">>,
                <<"s", "o">>,
                <<"l", "d">>,
                <<"B", "i", "d", "d", "i", "n", "g", " ", "O", "p", "e", "n">>,
                <<"E", "x", "c", "h", "a", "n", "g", "e", "d">>,
                <<"w", "i", "t", "h", "d", "r", "a", "w", "n">>,
                <<"C", "O", "M", "P", "L", "E", "T", "E", "D">>,
                <<"C", "o", "n", "t", "r", "a", "c", "t", "e", "d">>,
                <<"A", "v", "a", "i", "l", "a", "b", "l", "e">>,
                <<"p", "o", "s", "t", "p", "o", "n", "e", "d">>}

RECURSIVE WordSeqs(_)
WordSeqs(n) ==
    IF n = 0 THEN {<<>>}
    ELSE LET W == WordSeqs(n - 1)
         IN W \cup {Append(ws, w) : ws \in W, w \in StatusWords}

Statuses == {NoneStr} \cup {Concat(ws) : ws \in WordSeqs(MaxWords)}
GuidePrices == {NoneStr, <<>>, <<"£", "1", "5", "0", ",", "0", "0", "0">>}

-----------------------------------------------------------------------------
(* Values of variables a specification does not use                        *)

NoLimit == 0 - 1
NoRc == 0 - 1
NoError == "None"

IdleSitemap ==
    /\ docs = DocsOf([u \in IndexCapable |-> <<>>])
    /\ max_nested = 0
    /\ to_visit = <<>>
    /\ visited = {}
    /\ property_urls = {}
    /\ warned = <<>>
    /\ log = <<>>

IdleRun ==
    /\ limit = NoLimit
    /\ include_sold = FALSE
    /\ urls = <<>>
    /\ idx = 0
    /\ records = <<>>
    /\ rows = <<>>
    /\ rc = NoRc

IdleFetch ==
    /\ retries = 0
    /\ backoff = <<3, 2>>
    /\ attempt = 0
    /\ last_error = NoError
    /\ sleeps = <<>>
    /\ ret = [kind |-> "none", value |-> NoError]

EmptyDict == [k \in {} |-> ""]

IdlePure ==
    /\ record = [status |-> NoneStr, guide_price |-> NoneStr]
    /\ structured = EmptyDict
    /\ heuristic = EmptyDict
    /\ url_arg = ""
    /\ details = EmptyDict

-----------------------------------------------------------------------------
(* The traversal on its own                                                *)

InitSitemap ==
    /\ docs \in SitemapWebs
    /\ max_nested \in 1..MaxNested
    /\ to_visit = <<Root>>
    /\ visited = {}
    /\ property_urls = {}
    /\ warned = <<>>
    /\ pc = "loop"
    /\ log = <<>>
    /\ IdleRun /\ IdleFetch /\ IdlePure

NextSitemap == SitemapVisit \/ SitemapReturn

SpecSitemap == InitSitemap /\ [][NextSitemap]_vars

\* The function runs on one thread and nothing suspends it: while it can
\* take a step of its loop, it does.
InitTermination ==
    /\ docs \in {DocsOf(g) : g \in LinkGraphs(TermRefs)}
    /\ max_nested \in 1..MaxNested
    /\ to_visit = <<Root>>
    /\ visited = {}
    /\ property_urls = {}
    /\ warned = <<>>
    /\ pc = "loop"
    /\ log = <<>>
    /\ IdleRun /\ IdleFetch /\ IdlePure

FairSpecSitemap == InitTermination /\ [][NextSitemap]_vars /\ WF_vars(NextSitemap)

-----------------------------------------------------------------------------
(* The availability classifier on its own                                  *)

InitClassify ==
    /\ record \in [status : Statuses, guide_price : GuidePrices]
    /\ pc = "classify"
    /\ ret = [kind |-> "none", value |-> NoError]
    /\ retries = 0 /\ backoff = <<3, 2>> /\ attempt = 0 /\ last_error = NoError
    /\ sleeps = <<>>
    /\ structured = EmptyDict /\ heuristic = EmptyDict /\ url_arg = ""
    /\ details = EmptyDict
    /\ IdleSitemap /\ IdleRun

\* a call of is_for_sale(record)
Classify ==
    /\ pc = "classify"
    /\ ret' = [kind |-> "return", value |-> is_for_sale(record)]
    /\ pc' = "classified"
    /\ UNCHANGED <<sitemapVars, log, runVars, retries, backoff, attempt, last_error,
                   sleeps, pureVars>>

NextClassify == Classify

SpecClassify == InitClassify /\ [][NextClassify]_vars

-----------------------------------------------------------------------------
(* parse_lot_page (src/scrape_national_lots.py)                            *)

\* a dict is a function on its keys; every value here is a str
Keys(d) == DOMAIN d
IsSet(d, k) == k \in DOMAIN d /\ d[k] # ""      \* bool(d.get(k))

\* line 210: details.update({k: v for k, v in ... if v})
UpdateNonEmpty(d, e) ==
    [k \in Keys(d) \cup {x \in Keys(e) : e[x] # ""} |->
        IF k \in Keys(e) /\ e[k] # "" THEN e[k] ELSE d[k]]

\* lines 212-214: the HTML value fills a key only where details has none
FillGapsOverwrite(d, h) ==
    [k \in Keys(d) \cup {x \in Keys(h) : h[x] # ""} |->
        IF k \in Keys(h) /\ h[k] # "" THEN h[k] ELSE d[k]]
FillGaps(d, h) ==
    [k \in Keys(d) \cup {x \in Keys(h) : h[x] # "" /\ ~IsSet(d, x)} |->
        IF k \in Keys(h) /\ h[k] # "" /\ ~IsSet(d, k) THEN h[k] ELSE d[k]]

\* lines 203-216
parse_lot_page(json_ld, html_fallbacks, url) ==
    FillGaps(UpdateNonEmpty([k \in {"url"} |-> url], json_ld), html_fallbacks)

\* What _extract_from_json_ld can return (lines 109-149): each of title,
\* lot_number, guide_price, status, auction_date is set only to the str() of
\* a truthy value; address is set to _flatten_address(...), which may be "".
JsonLdValue == "120000"
StructuredMaps ==
    UNION {[ks -> {JsonLdValue}] :
             ks \in SUBSET {"title", "lot_number", "guide_price", "status", "auction_date"}}
StructuredAddress == {EmptyDict, [k \in {"address"} |-> ""],
                      [k \in {"address"} |-> "1 High St, Leeds"]}

\* What _extract_from_html can return (lines 160-200): lot_number,
\* guide_price, auction_date and status are always set, to the match or "";
\* title and address are set only when an element was found.
HtmlValue == "42"
HeuristicRegex ==
    [{"lot_number", "guide_price", "auction_date", "status"} -> {"", HtmlValue}]
HeuristicDom ==
    UNION {[ks -> {"", HtmlValue}] : ks \in SUBSET {"title", "address"}}

Merge2(a, b) == [k \in Keys(a) \cup Keys(b) |-> IF k \in Keys(a) THEN a[k] ELSE b[k]]

LotUrls == {"https://online.auctionhouse.co.uk/lot/details/1",
            "https://online.auctionhouse.co.uk/lot/details/2"}

InitParse ==
    /\ structured \in {Merge2(a, b) : a \in StructuredMaps, b \in StructuredAddress}
    /\ heuristic \in {Merge2(a, b) : a \in HeuristicRegex, b \in HeuristicDom}
    /\ url_arg \in LotUrls
    /\ details = EmptyDict
    /\ record = [status |-> NoneStr, guide_price |-> NoneStr]
    /\ pc = "parse"
    /\ IdleSitemap /\ IdleRun /\ IdleFetch

\* a call of parse_lot_page, given what the two extractors returned
ParseLotPage ==
    /\ pc = "parse"
    /\ details' = parse_lot_page(structured, heuristic, url_arg)
    /\ pc' = "parsed"
    /\ UNCHANGED <<sitemapVars, log, runVars, fetchVars, record, structured,
                   heuristic, url_arg>>

NextParse == ParseLotPage

SpecParse == InitParse /\ [][NextParse]_vars

-----------------------------------------------------------------------------
(* fetch_text (src/scrape_auctionhouse.py)                                 *)

RECURSIVE Pow(_, _)
Pow(b, e) == IF e = 0 THEN 1 ELSE b * Pow(b, e - 1)

\* the values of backoff tried: the default 1.5 and 2
Backoffs == {<<3, 2>>, <<2, 1>>}

\* line 78: backoff ** (attempt - 1), as <<numerator, denominator>>
SleepForAttempt(b, a) == <<Pow(b[1], a), Pow(b[2], a)>>
SleepFor(b, a) == <<Pow(b[1], a - 1), Pow(b[2], a - 1)>>

Bodies == {"<html>one</html>", "<html>two</html>"}
Errors == {"ConnectionError", "Timeout", "HTTPError 503"}
FetchUrl == P1

\* line 75: the except clause records the exception
KeepFirstError(prev, exc) == IF prev = NoError THEN exc ELSE prev
RecordError(prev, exc) == exc

\* line 76: the test that ends the loop after a failed attempt
OutOfAttemptsLate(a, n) == a > n
OutOfAttempts(a, n) == a >= n

InitFetch ==
    /\ retries \in 1..MaxRetries
    /\ backoff \in Backoffs
    /\ attempt = 0
    /\ last_error = NoError
    /\ sleeps = <<>>
    /\ ret = [kind |-> "none", value |-> NoError]
    /\ pc = "fetch"
    /\ log = <<>>
    /\ docs = DocsOf([u \in IndexCapable |-> <<>>])
    /\ max_nested = 0 /\ to_visit = <<>> /\ visited = {} /\ property_urls = {}
    /\ warned = <<>>
    /\ IdleRun /\ IdlePure

\* lines 69-73: an attempt whose response arrives with a 2xx status
FetchAttemptOk ==
    /\ pc = "fetch"
    /\ \E body \in Bodies :
         /\ attempt' = attempt + 1
         /\ log' = Append(log, Get(FetchUrl, body))
         /\ ret' = [kind |-> "return", value |-> body]
         /\ pc' = "fetched"
    /\ UNCHANGED <<sitemapVars, runVars, retries, backoff, last_error, sleeps, pureVars>>

\* lines 69-81: an attempt that raises; after the last one the loop is left
\* and RuntimeError is raised, carrying last_error
FetchAttemptFail ==
    /\ pc = "fetch"
    /\ \E exc \in Errors :
         /\ attempt' = attempt + 1
         /\ log' = Append(log, Get(FetchUrl, exc))
         /\ last_error' = RecordError(last_error, exc)
         /\ IF OutOfAttempts(attempt', retries)
            THEN /\ ret' = [kind |-> "raise", value |-> last_error']
                 /\ pc' = "fetched"
                 /\ sleeps' = sleeps
            ELSE /\ sleeps' = Append(sleeps, SleepFor(backoff, attempt'))
                 /\ UNCHANGED <<ret, pc>>
    /\ UNCHANGED <<sitemapVars, runVars, retries, backoff, pureVars>>

NextFetch == FetchAttemptOk \/ FetchAttemptFail

SpecFetch == InitFetch /\ [][NextFetch]_vars

-----------------------------------------------------------------------------
(* run (src/scrape_auctionhouse.py)                                        *)

\* line 94: run calls iter_sitemap_property_urls without max_nested
DefaultMaxNested == 100

STATUS_SOLD == <<"S", "o", "l", "d", " ", "S", "T", "C">>
STATUS_AVAIL == <<"A", "v", "a", "i", "l", "a", "b", "l", "e">>
STATUS_OPEN == <<"B", "i", "d", "d", "i", "n", "g", " ", "O", "p", "e", "n">>
PRICE == <<"£", "1", "5", "0", ",", "0", "0", "0">>

\* The page behind each listing URL: the status and guide_price that
\* parse_property_page extracts from it (the other fields play no part in
\* the pipeline's decisions).
PageOf(u) ==
    CASE u = P1  -> [status |-> STATUS_SOLD, guide_price |-> PRICE]
      [] u = P1q -> [status |-> STATUS_AVAIL, guide_price |-> PRICE]
      [] u = P2  -> [status |-> NoneStr, guide_price |-> NoneStr]
      [] u = P3  -> [status |-> STATUS_OPEN, guide_price |-> NoneStr]
      [] OTHER   -> [status |-> NoneStr, guide_price |-> NoneStr]

\* lines 209-221
parse_property_page(u) ==
    [url |-> u, status |-> PageOf(u).status, guide_price |-> PageOf(u).guide_price]

GetPage(u, res) == [op |-> "GET_PAGE", url |-> u, res |-> res]
PageResults == {"ok", "error"}

Min(a, b) == IF a <= b THEN a ELSE b

\* lines 256-257: `if args.limit:` then property_urls[: args.limit]
ApplyLimit(list, lim) ==
    IF lim # NoLimit /\ lim # 0 THEN SubSeq(list, 1, Min(lim, Len(list))) ELSE list

\* line 267
KeepAlways(inc, rec) == TRUE
KeepRecord(inc, rec) == inc \/ is_for_sale(rec)

\* lines 269-271: any exception skips the listing
OnPageErrorAbort(n, done) == n
OnPageError(n, done) == done + 1

InitRun ==
    /\ docs \in {DocsOf(g) : g \in LinkGraphs(RunRefs)}
    /\ max_nested = DefaultMaxNested
    /\ to_visit = <<Root>>
    /\ visited = {}
    /\ property_urls = {}
    /\ warned = <<>>
    /\ pc = "loop"
    /\ log = <<>>
    /\ limit \in {NoLimit} \cup 0..MaxLimit
    /\ include_sold \in BOOLEAN
    /\ urls = <<>>
    /\ idx = 0
    /\ records = <<>>
    /\ rows = <<>>
    /\ rc = NoRc
    /\ IdleFetch /\ IdlePure

\* lines 252-254: the traversal raised; run logs the error and returns 1
RunFail ==
    /\ pc = "raised"
    /\ rc' = 1
    /\ pc' = "failed"
    /\ UNCHANGED <<sitemapVars, log, limit, include_sold, urls, idx, records, rows,
                   fetchVars, pureVars>>

\* lines 256-259: the limit is applied to the returned list
RunSlice ==
    /\ pc = "returned"
    /\ urls' = ApplyLimit(urls, limit)
    /\ idx' = 0
    /\ pc' = "listing"
    /\ UNCHANGED <<sitemapVars, log, limit, include_sold, records, rows, rc,
                   fetchVars, pureVars>>

\* lines 262-272: one iteration of the listing loop.  time.sleep(args.delay)
\* is the Sleep entry of the log.
RunListing ==
    /\ pc = "listing"
    /\ idx < Len(urls)
    /\ \E res \in PageResults :
         LET url == urls[idx + 1]
         IN IF res = "ok"
            THEN LET rec == parse_property_page(url)
                 IN /\ records' = IF KeepRecord(include_sold, rec)
                                  THEN Append(records, rec) ELSE records
                    /\ log' = log \o <<GetPage(url, res), Sleep>>
                    /\ idx' = idx + 1
            ELSE /\ records' = records
                 /\ log' = Append(log, GetPage(url, res))
                 /\ idx' = OnPageError(Len(urls), idx)
    /\ UNCHANGED <<sitemapVars, pc, limit, include_sold, urls, rows, rc,
                   fetchVars, pureVars>>

\* lines 274-276 and write_csv (234-243): one row per record, in order
RunExport ==
    /\ pc = "listing"
    /\ idx = Len(urls)
    /\ rows' = records
    /\ rc' = 0
    /\ pc' = "done"
    /\ UNCHANGED <<sitemapVars, log, limit, include_sold, urls, idx, records,
                   fetchVars, pureVars>>

Init == InitRun

Next ==
    \/ SitemapVisit
    \/ SitemapReturn
    \/ RunFail
    \/ RunSlice
    \/ RunListing
    \/ RunExport

Spec == Init /\ [][Next]_vars

-----------------------------------------------------------------------------
(* Properties                                                              *)

Last(seq) == seq[Len(seq)]
SitemapGets == {i \in DOMAIN log : log[i].op = "GET"}
PageGets == {i \in DOMAIN log : log[i].op = "GET_PAGE"}

\* C1: in one traversal no sitemap document URL is fetched twice, whatever
\* the shape of the sitemap graph (cycles, self-references, documents with
\* several parents).
C1_FetchedAtMostOnce ==
    \A i, j \in SitemapGets : log[i].url = log[j].url => i = j

\* a finished traversal of Root -> [A, B], A -> [B], B -> [A]: A and B lie on
\* a cycle, A has two parents and was enqueued twice, and each was fetched
C1_Witness ==
    /\ pc = "returned"
    /\ docs[Root].tag = "sitemapindex" /\ docs[Root].locs = <<DocA, DocB>>
    /\ docs[DocA].tag = "sitemapindex" /\ docs[DocA].locs = <<DocB>>
    /\ docs[DocB].tag = "sitemapindex" /\ docs[DocB].locs = <<DocA>>
    /\ warned = <<>>
    /\ {log[i].url : i \in SitemapGets} = {Root, DocA, DocB}
    /\ \A i \in SitemapGets : log[i].res = "ok"

\* the status contains one of the five flags, compared case-insensitively
HasSoldFlag(s) == \E flag \in SoldFlags : Contains(LowerStr(s), flag)

SchemaFields == {"title", "address", "guide_price", "status", "auction_date", "lot_number"}

\* C3: in the dict parse_lot_page returns, each schema field other than url
\* holds the JSON-LD value when that is present and non-empty, otherwise the
\* HTML value when that is present and non-empty, and is otherwise absent;
\* url holds the url argument.
C3_StructuredWinsThenHeuristic ==
    pc = "parsed" =>
        /\ Keys(details) \subseteq SchemaFields \cup {"url"}
        /\ "url" \in Keys(details) /\ details["url"] = url_arg
        /\ \A f \in SchemaFields :
             IF IsSet(structured, f)
             THEN f \in Keys(details) /\ details[f] = structured[f]
             ELSE IF IsSet(heuristic, f)
             THEN f \in Keys(details) /\ details[f] = heuristic[f]
             ELSE f \notin Keys(details)

\* a merged record where both layers gave a (different) lot number, only the
\* HTML gave a status, the JSON-LD address was empty and the HTML one not,
\* and neither gave a title
C3_Witness ==
    /\ pc = "parsed"
    /\ IsSet(structured, "lot_number") /\ IsSet(heuristic, "lot_number")
    /\ structured["lot_number"] # heuristic["lot_number"]
    /\ details["lot_number"] = structured["lot_number"]
    /\ ~IsSet(structured, "status") /\ IsSet(heuristic, "status")
    /\ "address" \in Keys(structured) /\ structured["address"] = ""
    /\ IsSet(heuristic, "address")
    /\ ~IsSet(structured, "title") /\ ~IsSet(heuristic, "title")

\* C4: fetch_text makes at most `retries` attempts; it returns the body of
\* the first attempt that succeeds, having made exactly that many attempts
\* and none after it; when every attempt failed it raises once, with the
\* error of the last attempt, and returns no body.
C4_RetryOutcome ==
    /\ attempt = Len(log)
    /\ Len(log) <= retries
    /\ \A i \in 1..(Len(log) - 1) : log[i].res \in Errors
    /\ (Len(log) > 0 /\ Last(log).res \in Bodies) =>
           (pc = "fetched" /\ ret = [kind |-> "return", value |-> Last(log).res])
    /\ (Len(log) = retries /\ Last(log).res \in Errors) =>
           (pc = "fetched" /\ ret = [kind |-> "raise", value |-> Last(log).res])
    /\ (Len(log) < retries /\ (Len(log) = 0 \/ Last(log).res \in Errors)) =>
           (pc = "fetch" /\ ret.kind = "none")

\* three attempts failed with three different errors and the call raised
C4_Witness ==
    /\ pc = "fetched"
    /\ retries = 3
    /\ ret.kind = "raise"
    /\ Len(log) = 3
    /\ Cardinality({log[i].res : i \in DOMAIN log}) = 3

\* C5 (as stated): a sitemap document other than the root that cannot be
\* fetched is skipped and does not end the run: discovery fails, and run
\* returns 1, only when the document that could not be fetched is the root.
C5_OnlyRootFailureIsFatal ==
    pc \in {"raised", "failed"} => Last(log).url = Root

\* C6: a document that is malformed XML costs only its own branch: the
\* iteration that meets it leaves the collected listing URLs and the rest of
\* the frontier as they were and the loop goes on; the traversal never
\* raises because of it (only a failed fetch makes it raise).
C6_MalformedAbandonsOnlyItsBranch ==
    /\ [][(pc = "loop" /\ Len(log') = Len(log) + 1 /\ Last(log').res = "malformed")
             => /\ pc' = "loop"
                /\ property_urls' = property_urls
                /\ to_visit' = SubSeq(to_visit, 1, Len(to_visit) - 1)
                /\ warned' = warned]_vars
    /\ [](pc = "raised" => Last(log).res = "error")

\* a traversal that returned although a document was malformed: a urlset
\* was read before it and another document after it
C6_Witness ==
    /\ pc = "returned"
    /\ property_urls # {}
    /\ \E h, i, j \in SitemapGets :
         /\ h < i /\ i < j
         /\ log[h].res = "ok" /\ docs[log[h].url].tag = "urlset"
         /\ log[i].res = "malformed"
         /\ log[j].res = "ok" /\ docs[log[j].url].tag = "urlset"

\* the listing URLs whose page was fetched and parsed
PagesOk == {log[i].url : i \in {k \in PageGets : log[k].res = "ok"}}
Range(seq) == {seq[i] : i \in DOMAIN seq}

\* C7: when run reaches the export, every listing URL of the (limited) list
\* was tried, and the rows written are one row per listing whose page was
\* fetched and parsed and that is_for_sale accepts (every such listing, when
\* include_sold is set); a failed listing gives no row.
C7_RowsAreTheAcceptedListings ==
    pc = "done" =>
        /\ {log[i].url : i \in PageGets} = Range(urls)
        /\ Cardinality(PageGets) = Len(urls)
        /\ Range(rows) = {parse_property_page(u) :
                            u \in {v \in PagesOk :
                                     include_sold \/ is_for_sale(parse_property_page(v))}}
        /\ \A i, j \in DOMAIN rows : rows[i].url = rows[j].url => i = j

\* an export after one listing failed, a later one was fetched and filtered
\* out as sold, and another was accepted
C7_Witness ==
    /\ pc = "done"
    /\ ~include_sold
    /\ rows # <<>>
    /\ \E i, j \in PageGets :
         /\ i < j
         /\ log[i].res = "error"
         /\ log[j].res = "ok"
         /\ ~is_for_sale(parse_property_page(log[j].url))

\* C8 (as stated): with a limit L >= 0 given, a run fetches at most L
\* listing pages.
C8_AtMostLimitPagesFetched ==
    limit # NoLimit => Cardinality(PageGets) <= limit

\* C9 (as stated): the politeness delay lies between any two consecutive
\* listing-page fetches, whatever the outcome of the earlier one.
C9_DelayBetweenPageFetches ==
    \A i \in 1..(Len(log) - 1) :
        ~(log[i].op = "GET_PAGE" /\ log[i + 1].op = "GET_PAGE")

\* What each sitemap document gave in this traversal ("ok" for a document
\* the traversal never fetched).
Health ==
    [u \in SitemapDocs |->
        IF \E i \in SitemapGets : log[i].url = u
        THEN log[CHOOSE i \in SitemapGets : log[i].url = u].res
        ELSE "ok"]

\* what a finished traversal hands to its caller
Outcome(s) ==
    IF s.pc = "raised" THEN [pc |-> "raised", urls |-> <<>>]
    ELSE [pc |-> "returned", urls |-> sorted(s.property_urls)]

\* The outcomes of the traversal over all orders of taking pending documents
\* from the frontier: at each iteration any position i of to_visit may be
\* the one popped.  health[u] is what fetching document u gives.
RECURSIVE OrderOutcomes(_, _)
OrderOutcomes(s, health) ==
    IF s.pc # "loop" \/ s.to_visit = <<>>
    THEN {[out |-> Outcome(s), dropped |-> s.warned # <<>>]}
    ELSE UNION {OrderOutcomes(LoopBody(s, i, health[s.to_visit[i]], docs, max_nested),
                              health) : i \in 1..Len(s.to_visit)}

\* C10 (as stated): for every sitemap graph and every node cap, the list of
\* listing URLs the traversal returns is the one every other order of taking
\* documents from the frontier returns.
C10_SameResultInEveryOrder ==
    pc = "returned" =>
        \A o \in OrderOutcomes(TraversalStart(Root), Health) :
            o.out.pc = "returned" => o.out.urls = urls

\* C10 (amended): when the node cap drops no child in any order of taking
\* documents from the frontier, the list of listing URLs the traversal
\* returns is the one every such order returns.
C10_SameResultWhenCapDropsNothing ==
    pc = "returned" =>
        LET all == OrderOutcomes(TraversalStart(Root), Health)
        IN (\A o \in all : ~o.dropped) =>
               (\A o \in all : o.out.pc = "returned" => o.out.urls = urls)

\* Root -> [A, B], A -> [C], B -> [A] under a cap that drops nothing: the
\* orders differ in what they enqueue (A twice, or once) and all return the
\* listings of C
C10_Witness ==
    /\ pc = "returned"
    /\ docs[Root].tag = "sitemapindex" /\ docs[Root].locs = <<DocA, DocB>>
    /\ docs[DocA].tag = "sitemapindex" /\ docs[DocA].locs = <<DocC>>
    /\ docs[DocB].tag = "sitemapindex" /\ docs[DocB].locs = <<DocA>>
    /\ \A o \in OrderOutcomes(TraversalStart(Root), Health) : ~o.dropped
    /\ Cardinality(OrderOutcomes(TraversalStart(Root), Health)) = 1
    /\ P2 \in property_urls

\* The canonical form of a listing URL: scheme, host and path, the query
\* (and fragment) dropped, as find_lot_links builds it.
Canonical(u) == Url(u.segs, u.ext, "")

\* C11 (as stated): the list of listing URLs that discovery hands to the
\* listing loop never holds two entries with the same canonical form, so no
\* canonical listing URL is fetched twice or exported twice.
C11_NoTwoEntriesWithTheSameCanonicalForm ==
    /\ \A i, j \in DOMAIN urls : Canonical(urls[i]) = Canonical(urls[j]) => i = j
    /\ \A i, j \in PageGets : Canonical(log[i].url) = Canonical(log[j].url) => i = j
    /\ \A i, j \in DOMAIN rows : Canonical(rows[i].url) = Canonical(rows[j].url) => i = j

\* the failed attempts so far that another attempt follows or will follow
FailedWithRetryLeft == {a \in DOMAIN log : log[a].res \in Errors /\ a < retries}

\* C12: fetch_text sleeps once after each failed attempt a that is not the
\* last allowed one, for backoff^(a-1) seconds, before attempt a+1 is made;
\* it does not sleep before attempt 1 nor after the final failed attempt.
C12_BackoffBetweenAttempts ==
    /\ Len(log) = 0 => sleeps = <<>>
    /\ Len(sleeps) = Cardinality(FailedWithRetryLeft)
    /\ \A a \in DOMAIN sleeps :
         /\ log[a].res \in Errors
         /\ sleeps[a][1] * Pow(backoff[2], a - 1) = sleeps[a][2] * Pow(backoff[1], a - 1)
    /\ Len(sleeps) <= retries - 1

\* with backoff 3/2 and three attempts that all failed: the call raised
\* after sleeping 1 s and then 3/2 s, and did not sleep after the third
C12_Witness ==
    /\ pc = "fetched"
    /\ ret.kind = "raise"
    /\ retries = 3
    /\ backoff = <<3, 2>>
    /\ Len(log) = 3
    /\ sleeps = << <<1, 1>>, <<3, 2>> >>

\* C13: with max_nested = m >= 1, visited plus pending documents never
\* number more than m, so at most m documents are fetched; only children
\* whose URL ends in .xml are enqueued; and the iteration that drops a child
\* because of the cap raises nothing: the loop goes on.
C13_SoftCapOnVisitedPlusPending ==
    /\ [](/\ Cardinality(visited) + Len(to_visit) <= max_nested
          /\ Cardinality(SitemapGets) <= max_nested
          /\ \A i \in DOMAIN to_visit : to_visit[i] = Root \/ EndsWithXml(to_visit[i]))
    /\ [][Len(warned') > Len(warned) => (pc' = "loop" /\ Last(log').res = "ok")]_vars

\* a finished traversal that fetched as many documents as the cap allows,
\* dropped a child because of the cap, and met a child that is no .xml URL
C13_Witness ==
    /\ pc = "returned"
    /\ warned # <<>>
    /\ Cardinality(SitemapGets) = max_nested
    /\ max_nested > 1
    /\ \E u \in visited : docs[u].tag = "sitemapindex" /\ DocN \in Range(docs[u].locs)
    /\ DocN \notin Range(warned)

\* C14: on every finite sitemap graph, cycles and self-references
\* included, a traversal all of whose fetches return a body eventually
\* returns, with the frontier empty.
C14_TraversalTerminates ==
    <>(\/ pc = "returned" /\ to_visit = <<>>
       \/ \E i \in SitemapGets : log[i].res = "error")

\* a returned traversal of Root -> [A], A -> [B], B -> [A], where A and B
\* lie on a cycle; every fetch returned a body
C14_Witness ==
    /\ pc = "returned"
    /\ to_visit = <<>>
    /\ docs[Root].tag = "sitemapindex" /\ docs[Root].locs = <<DocA>>
    /\ docs[DocA].tag = "sitemapindex" /\ docs[DocA].locs = <<DocB>>
    /\ docs[DocB].tag = "sitemapindex" /\ docs[DocB].locs = <<DocA>>
    /\ visited = {Root, DocA, DocB}
    /\ \A i \in SitemapGets : log[i].res = "ok"

====
